---- MODULE Spec2Model ----
(***************************************************************************)
(* PhoenixStore: the real-time subscription engine (WebSocketManager).     *)
(*                                                                         *)
(* State: the manager's two maps (clients, watchIntervals), each socket's  *)
(* readyState, the document store the manager polls, and the asynchronous  *)
(* store reads that are in flight (every `await mongoAdapter.get/find` is  *)
(* a suspension point: the handler issues the read in one step, and the    *)
(* store's answer resumes it in a later step; any other handler may run in *)
(* between).                                                               *)
(***************************************************************************)
EXTENDS Integers, Sequences, FiniteSets, TLC

\* ------------------------------------------------------------- bounds
NumConns == 3          \* sockets that may ever connect
MaxClientsCfg == 2     \* config.maxClients of the manager under check
WatchConns == 2        \* sockets that connect in a run that has subscriptions
NumDocs == 1           \* document ids of the watched collection
MaxVal == 2            \* payloads a document may carry (0 = no document)
MaxSubs == 1           \* subscription ids nanoid() hands out
MaxUsers == 2          \* user ids handleAuth hands out
MaxInFlight == 2       \* store reads in flight at once
MaxTicks == 2          \* polling ticks fired in a run
MaxPresence == 1       \* presence updates of authenticated sessions in a run
MaxFaults == 1         \* driver errors that MongoAdapter.get swallows in a run
\* A run has presence updates or subscriptions, not both: presence reads and
\* writes a session's status and metadata, subscriptions the registry, the timers
\* and the reads in flight; handleDisconnection, the one handler that touches both,
\* runs in either kind of run.

Conns == 1..NumConns
Docs == 1..NumDocs
Vals == 1..MaxVal
SubIds == 1..MaxSubs

\* ------------------------------------------------------------- values
NoUser == 0            \* userId: ''
NoDoc == 0             \* get() returned null
NoSub == 0             \* a subscriptionId that names no subscription
Undefined == -1        \* a required field the frame does not carry
NanoId == "nanoid"     \* a requestId generated by nanoid()
ReqIds == {"r1"}       \* requestIds a client supplies
NoMeta == "none"       \* metadata: undefined
Metas == {NoMeta, "m1"}
Statuses == {"online", "away", "offline"}
NoStatus == "undefined"                              \* message.status absent
\* what a client may put in `status`: a status, a string that is none, nothing
InStatuses == {"away", "busy", NoStatus}

VARIABLES
    readyState,      \* Conns -> "CONNECTING" | "OPEN" | "CLOSED"   (ws.readyState)
    clients,         \* set of sockets that are keys of this.clients
    clientState,     \* Conns -> [userId, status, metadata, subscriptions]
    watchIntervals,  \* set of subscription ids that are keys of this.watchIntervals
    pingIntervals,   \* sockets whose heartbeat interval is scheduled
    subs,            \* sequence of the Subscription objects created (index = id)
    nextUser,        \* next user id handleAuth generates
    store,           \* Docs -> 0..MaxVal, the collection the manager polls
    inflight,        \* sequence of store reads in flight, in issue order
    ticksFired,      \* number of ticks the timers have fired
    presences,       \* number of presence updates handled
    out,             \* frames written by the last step: sequence of [to, frame]
    firstFrame,      \* Conns -> <<the first frame written to this socket>>, or <<>>
    events,          \* SubIds -> change types of the events delivered for it
    unwatched,       \* subscriptions whose owner's unwatch request was processed
    eventTicks,      \* SubIds -> for each event delivered, the tick that sent it (0 = initial)
    getFaults,       \* number of driver errors MongoAdapter.get has swallowed
    racing,          \* SubIds -> the ticks that were in flight when it was cancelled
    pings,           \* Conns -> number of pings the heartbeat has sent on the socket
    pongTimeouts,    \* Conns -> pings whose pongTimeout (setTimeout) is pending
    pongListeners,   \* Conns -> pings whose once('pong') listener is registered
    ponged,          \* Conns -> pings whose listener a pong has run
    terminatedBy,    \* Conns -> the ping whose pongTimeout terminated the socket, or 0
    queries,         \* the CollectionQuery objects constructed, in order of construction
    conditionArrays, \* the arrays the `conditions` fields refer to (index = reference)
    optionObjects,   \* the objects the `queryOptions` fields refer to (index = reference)
    result,          \* the last call on the query API: what it threw or returned
    user,            \* the stored user: [failedLoginAttempts, lastFailedLogin]
    now,             \* Date.now(), in ticks of the clock
    signIns,         \* signIn calls awaiting verifyPassword, each with the user it read
    started,         \* number of signIn calls made
    streak,          \* failed sign-ins completed since the last successful one
    lockedAt,        \* when the 5th failure of the current streak completed (0 = not yet)
    attempt,         \* the sign-in that completed in the last step
    tokens,          \* the JWTs issued, in order: [type, expired] (index = the token)
    blacklist,       \* tokens that have an entry in token_blacklist
    refreshes,       \* refreshToken calls that passed the blacklist check, not yet finished
    exchanged,       \* token -> number of refreshToken calls with it that returned tokens
    tokenCall,       \* the token call that completed in the last step
    emailTokens,     \* the email_tokens documents: [type, expired, used] (index = the token)
    account,         \* the user the tokens belong to: [emailVerified, passwordHash]
    emailCalls,      \* verifyEmail / resetPassword calls past their token query
    consumed,        \* email tokens a call that returned was made with
    emailUses,       \* number of verifyEmail / resetPassword calls made
    emailCall        \* the verifyEmail / resetPassword call that completed in the last step

vars == <<readyState, clients, clientState, watchIntervals, pingIntervals, subs,
          nextUser, store, inflight, ticksFired, presences, out, firstFrame, events,
          unwatched, eventTicks, getFaults, racing,
          pings, pongTimeouts, pongListeners, ponged, terminatedBy,
          queries, conditionArrays, optionObjects, result,
          user, now, signIns, started, streak, lockedAt, attempt,
          tokens, blacklist, refreshes, exchanged, tokenCall,
          emailTokens, account, emailCalls, consumed, emailUses, emailCall>>

\* the sockets, their sessions and subscriptions, the polled store, the observers
socketVars == <<readyState, clients, clientState, watchIntervals, pingIntervals, subs,
                nextUser, store, inflight, ticksFired, presences, out, firstFrame, events,
                unwatched, eventTicks, getFaults, racing>>
\* the query objects of the PhoenixStore API
queryVars == <<queries, conditionArrays, optionObjects, result>>
\* the account whose sign-ins are counted, the clock and the calls in flight
signInVars == <<user, now, signIns, started, streak, lockedAt, attempt>>
\* the JWTs, the blacklist and the token calls in flight
tokenVars == <<tokens, blacklist, refreshes, exchanged, tokenCall>>
\* the email tokens, their user and the calls that use them
emailVars == <<emailTokens, account, emailCalls, consumed, emailUses, emailCall>>
\* the state of the heartbeat's timers and listeners
heartbeatVars == <<pings, pongTimeouts, pongListeners, ponged, terminatedBy>>
\* what the handlers of the socket's messages, of the polling timers and of 'close'
\* never touch
sideVars == <<heartbeatVars, queryVars, signInVars, tokenVars, emailVars>>

\* ------------------------------------------------------------- frames
\* One shape for every outbound frame; the fields a frame type does not carry
\* hold the neutral value.
Frame(type, requestId) ==
    [type |-> type, requestId |-> requestId, subscriptionId |-> 0, change |-> "",
     documentId |-> 0, data |-> NoDoc, changes |-> <<>>, code |-> "",
     userId |-> NoUser, status |-> "", metadata |-> NoMeta]

ConnectedFrame == Frame("connected", NanoId)

AuthFrame(requestId, userId, status) ==
    [Frame("auth", requestId) EXCEPT !.userId = userId, !.status = status]

DocumentEvent(sub, change, data) ==
    [Frame("watch_document", sub.requestId) EXCEPT
        !.subscriptionId = sub.id, !.change = change,
        !.documentId = sub.documentId, !.data = data]

\* docs.map(doc => ({type, documentId: doc.id, data: doc, ...}))
MapChanges(docs, change) ==
    [i \in 1..Len(docs) |-> [type |-> change, documentId |-> docs[i].id, data |-> docs[i].v]]

CollectionEvent(sub, change, docs) ==
    [Frame("watch_collection", sub.requestId) EXCEPT
        !.subscriptionId = sub.id, !.change = change,
        !.changes = MapChanges(docs, change)]

PresenceFrame(cs) ==
    [Frame("presence", NanoId) EXCEPT
        !.userId = cs.userId, !.status = cs.status, !.metadata = cs.metadata]

ErrorFrame(code) == [Frame("error", NanoId) EXCEPT !.code = code]

\* send(ws, message): written only while the socket is OPEN.
send(rs, ws, message) ==
    IF rs[ws] = "OPEN" THEN <<[to |-> ws, frame |-> message]>> ELSE <<>>

sendError(rs, ws, code) == send(rs, ws, ErrorFrame(code))

\* ------------------------------------------------------------- history
IsEvent(f) == f.type \in {"watch_document", "watch_collection"}

\* The frames a step writes, and what the observers of the sockets and of the
\* store driver keep of it: `tick` is the tick the step belongs to (0 = none),
\* `swallowed` whether MongoAdapter.get caught a driver error in it.
Record(frames, tick, swallowed) ==
    /\ out' = frames
    /\ firstFrame' = [c \in Conns |->
            IF firstFrame[c] = <<>> /\ \E i \in 1..Len(frames) : frames[i].to = c
            THEN LET i == CHOOSE j \in 1..Len(frames) :
                            /\ frames[j].to = c
                            /\ \A k \in 1..(j - 1) : frames[k].to # c
                 IN  <<frames[i].frame>>
            ELSE firstFrame[c]]
    /\ events' = [s \in SubIds |->
            IF \E i \in 1..Len(frames) :
                    IsEvent(frames[i].frame) /\ frames[i].frame.subscriptionId = s
            THEN LET i == CHOOSE j \in 1..Len(frames) :
                            IsEvent(frames[j].frame) /\ frames[j].frame.subscriptionId = s
                 IN  Append(events[s], frames[i].frame.change)
            ELSE events[s]]
    /\ eventTicks' = [s \in SubIds |->
            IF \E i \in 1..Len(frames) :
                    IsEvent(frames[i].frame) /\ frames[i].frame.subscriptionId = s
            THEN Append(eventTicks[s], tick)
            ELSE eventTicks[s]]
    /\ getFaults' = IF swallowed THEN getFaults + 1 ELSE getFaults
    /\ UNCHANGED sideVars

Emit(frames) == Record(frames, 0, FALSE)

\* ------------------------------------------------------------- store
\* mongoAdapter.get(collection, id): the document, or null when there is none; the
\* call rejects when getCollection throws (the adapter has no db). An absent
\* documentId makes `new ObjectId(undefined)` a fresh id, which no document has.
\* A driver error inside findOne is caught by get's catch, which returns null.
GetOutcomes(d) ==
    {[res |-> "ok", doc |-> IF d \in Docs THEN store[d] ELSE NoDoc, docs |-> <<>>,
      swallowed |-> FALSE],
     [res |-> "error", doc |-> NoDoc, docs |-> <<>>, swallowed |-> FALSE]}
    \cup IF getFaults < MaxFaults
         THEN {[res |-> "ok", doc |-> NoDoc, docs |-> <<>>, swallowed |-> TRUE]}
         ELSE {}

getMongoOperator_Loose(operator) ==
    CASE operator = "==" -> "$eq"
      [] operator = "!=" -> "$ne"
      [] operator = "<" -> "$lte"
      [] operator = "<=" -> "$lte"
      [] operator = ">" -> "$gte"
      [] operator = ">=" -> "$gte"
      [] operator = "in" -> "$in"
      [] operator = "not-in" -> "$nin"
      [] operator = "array-contains" -> "$elemMatch"
      [] operator = "array-contains-any" -> "$in"
      [] OTHER -> "$eq"

\* getMongoOperator: the store operator of a query operator.
getMongoOperator(operator) ==
    CASE operator = "==" -> "$eq"
      [] operator = "!=" -> "$ne"
      [] operator = "<" -> "$lt"
      [] operator = "<=" -> "$lte"
      [] operator = ">" -> "$gt"
      [] operator = ">=" -> "$gte"
      [] operator = "in" -> "$in"
      [] operator = "not-in" -> "$nin"
      [] operator = "array-contains" -> "$elemMatch"
      [] operator = "array-contains-any" -> "$in"
      [] OTHER -> "$eq"

\* The operators getMongoOperator has a case for.
KnownOperators ==
    {"==", "!=", "<", "<=", ">", ">=", "in", "not-in", "array-contains",
     "array-contains-any"}

\* buildQueryFilter: the $and list of {field: {mongoOperator: value}}.
buildQueryFilter(where) ==
    [i \in 1..Len(where) |->
        [field |-> where[i].field, op |-> getMongoOperator(where[i].operator),
         value |-> where[i].value]]

\* The store's evaluation of one {field: {op: value}} on a document whose field
\* is the number v and whose operand is a number.
MongoOpNeedsArray(op) == op \in {"$in", "$nin", "$elemMatch"}

MongoMatch(v, op, value) ==
    CASE op = "$eq" -> v = value
      [] op = "$ne" -> v # value
      [] op = "$lt" -> v < value
      [] op = "$lte" -> v <= value
      [] op = "$gt" -> v > value
      [] op = "$gte" -> v >= value
      [] OTHER -> FALSE

RECURSIVE DocsFrom(_, _)
DocsFrom(d, filter) ==
    IF d > NumDocs THEN <<>>
    ELSE IF store[d] # NoDoc
            /\ \A i \in 1..Len(filter) : MongoMatch(store[d], filter[i].op, filter[i].value)
         THEN <<[id |-> d, v |-> store[d]]>> \o DocsFrom(d + 1, filter)
         ELSE DocsFrom(d + 1, filter)

\* mongoAdapter.find(collection, filter): the matching documents, or a rejection
\* (a driver error, or an operator the store refuses for a number operand).
FindOutcomes(filter) ==
    IF \E i \in 1..Len(filter) : MongoOpNeedsArray(filter[i].op)
    THEN {[res |-> "error", doc |-> NoDoc, docs |-> <<>>, swallowed |-> FALSE]}
    ELSE {[res |-> "ok", doc |-> NoDoc, docs |-> DocsFrom(1, filter), swallowed |-> FALSE],
          [res |-> "error", doc |-> NoDoc, docs |-> <<>>, swallowed |-> FALSE]}

\* ------------------------------------------------------------- inbound
Tokens == {"valid", "rejected"}   \* tokens the Auth collaborator accepts / rejects
Wheres == {<<>>, <<[field |-> "v", operator |-> ">", value |-> 1]>>,
           <<[field |-> "v", operator |-> "invalid", value |-> 1]>>}
\* query.offset: absent, or documents to skip
Offsets == {0, 1}
\* The queries of the watch_collection requests.
Queries ==
    {[where |-> w, offset |-> 0] : w \in Wheres} \cup {[where |-> <<>>, offset |-> 1]}

AuthMessage(requestId, token) ==
    [type |-> "auth", requestId |-> requestId, token |-> token, documentId |-> 0,
     where |-> <<>>, offset |-> 0, status |-> NoStatus, metadata |-> NoMeta,
     subscriptionId |-> 0]
WatchDocumentMessage(requestId, documentId) ==
    [AuthMessage(requestId, "") EXCEPT !.type = "watch_document", !.documentId = documentId]
WatchCollectionMessage(requestId, query) ==
    [AuthMessage(requestId, "") EXCEPT
        !.type = "watch_collection", !.where = query.where, !.offset = query.offset]
PresenceMessage(requestId, status, metadata) ==
    [AuthMessage(requestId, "") EXCEPT
        !.type = "presence", !.status = status, !.metadata = metadata]
UnwatchMessage(requestId, subscriptionId) ==
    [AuthMessage(requestId, "") EXCEPT !.type = "unwatch", !.subscriptionId = subscriptionId]

\* A frame whose text JSON.parse rejects.
InvalidJson == [AuthMessage("", "") EXCEPT !.type = "invalid_json"]

\* Frames of a known type that lack a required field.
Malformed ==
    {WatchDocumentMessage(r, Undefined) : r \in ReqIds}
    \cup {UnwatchMessage(r, Undefined) : r \in ReqIds}

Messages ==
    {AuthMessage(r, t) : r \in ReqIds, t \in Tokens}
    \cup Malformed
    \cup {WatchDocumentMessage(r, d) : r \in ReqIds, d \in Docs}
    \cup {WatchCollectionMessage(r, q) : r \in ReqIds, q \in Queries}
    \cup {PresenceMessage(r, s, m) : r \in ReqIds, s \in InStatuses, m \in Metas}
    \cup {UnwatchMessage(r, s) : r \in ReqIds, s \in SubIds \cup {NoSub}}

\* ------------------------------------------------------------- Init
NewClientState ==
    [userId |-> NoUser, status |-> "online", metadata |-> NoMeta, subscriptions |-> {}]

\* QueryOptions: limit, offset, orderBy, orderDirection; 0 and "" stand for an
\* absent field.
NoOptions == [limit |-> 0, offset |-> 0, orderBy |-> "", orderDirection |-> ""]
\* what a call on the query API left: the method, its receiver, the code of the
\* PhoenixStoreError thrown ("" = none), the query object returned (0 = none), the
\* conditions a read was given and the ids of the documents it returned
NoResult ==
    [op |-> "", receiver |-> 0, thrown |-> "", returned |-> 0, conditions |-> <<>>,
     docs |-> <<>>, fault |-> FALSE]
\* new CollectionQuery(name, adapter, name): conditions = [], queryOptions = {},
\* hasOrderBy = false
QueryIdle ==
    /\ queries = <<[conditions |-> 1, queryOptions |-> 1, hasOrderBy |-> FALSE]>>
    /\ conditionArrays = << <<>> >>
    /\ optionObjects = <<NoOptions>>
    /\ result = NoResult

\* what a completed signIn left: the password given, the code of the error thrown
\* ("" = tokens returned), whether the call was made inside a lockout
NoAttempt == [op |-> "", password |-> "", code |-> "", lockedAtStart |-> FALSE]
\* A user as createUser stores it (failedLoginAttempts 0, lastFailedLogin null,
\* written 0), no signIn in flight.
SignInIdle ==
    /\ user = [failedLoginAttempts |-> 0, lastFailedLogin |-> 0]
    /\ now = 1
    /\ signIns = <<>>
    /\ started = 0
    /\ streak = 0
    /\ lockedAt = 0
    /\ attempt = NoAttempt

\* generateAuthTokens: an access token and a refresh token, neither expired
MaxTokens == 6
TokenIds == 1..MaxTokens
AuthTokens == <<[type |-> "access", expired |-> FALSE], [type |-> "refresh", expired |-> FALSE]>>
\* what a completed token call left: the method, the token and type given, the
\* code thrown ("" = none), the refresh token returned (0 = none), and whether
\* the token had been exchanged / revoked by a call that returned before this one
\* was made
NoTokenCall ==
    [op |-> "", token |-> 0, type |-> "", code |-> "", returned |-> 0, after |-> FALSE]
\* The tokens of one sign-in, nothing blacklisted, no call in flight.
TokensIdle ==
    /\ tokens = AuthTokens
    /\ blacklist = {}
    /\ refreshes = <<>>
    /\ exchanged = [t \in TokenIds |-> 0]
    /\ tokenCall = NoTokenCall

\* what a completed verifyEmail / resetPassword left: the method, the token given,
\* the code thrown ("" = none), whether a call with the token had returned before
\* this one was made
NoEmailCall == [op |-> "", token |-> 0, code |-> "", after |-> FALSE]
\* generateEmailToken: used false, expiry 24 hours ahead; one token of each type.
\* passwordHash counts the passwords set.
EmailIdle ==
    /\ emailTokens = <<[type |-> "verification", expired |-> FALSE, used |-> FALSE],
                       [type |-> "reset", expired |-> FALSE, used |-> FALSE]>>
    /\ account = [emailVerified |-> FALSE, passwordHash |-> 0]
    /\ emailCalls = <<>>
    /\ consumed = {}
    /\ emailUses = 0
    /\ emailCall = NoEmailCall

\* no ping sent yet, no pongTimeout pending, no listener registered
HeartbeatIdle ==
    /\ pings = [c \in Conns |-> 0]
    /\ pongTimeouts = [c \in Conns |-> {}]
    /\ pongListeners = [c \in Conns |-> {}]
    /\ ponged = [c \in Conns |-> {}]
    /\ terminatedBy = [c \in Conns |-> 0]

Init ==
    /\ readyState = [c \in Conns |-> "CONNECTING"]
    /\ clients = {}
    /\ clientState = [c \in Conns |-> NewClientState]
    /\ watchIntervals = {}
    /\ pingIntervals = {}
    /\ subs = <<>>
    /\ nextUser = 1
    /\ store \in [Docs -> 0..MaxVal]
    /\ inflight = <<>>
    /\ ticksFired = 0
    /\ presences = 0
    /\ out = <<>>
    /\ firstFrame = [c \in Conns |-> <<>>]
    /\ events = [s \in SubIds |-> <<>>]
    /\ unwatched = {}
    /\ eventTicks = [s \in SubIds |-> <<>>]
    /\ getFaults = 0
    /\ racing = [s \in SubIds |-> {}]
    /\ HeartbeatIdle
    /\ QueryIdle
    /\ SignInIdle
    /\ TokensIdle
    /\ EmailIdle

\* ------------------------------------------------------------- helpers
\* clientState?.userId is set
Authenticated_StateOnly(ws) == ws \in clients
Authenticated(ws) == ws \in clients /\ clientState[ws].userId # NoUser

RemoveAt(seq, i) == SubSeq(seq, 1, i - 1) \o SubSeq(seq, i + 1, Len(seq))

RECURSIVE Concat(_, _)
\* f[1] \o f[2] \o ... \o f[n]
Concat(f, n) == IF n = 0 THEN <<>> ELSE Concat(f, n - 1) \o f[n]

\* broadcastPresence: the presence frame of `cs`, to every tracked socket whose
\* state has a userId other than cs.userId.
\* `states` is the clients map's values at the time of the call.
PresenceTarget_Echo(states, cs, ws) ==
    /\ ws \in clients
    /\ states[ws].userId # NoUser

PresenceTarget(states, cs, ws) ==
    /\ ws \in clients
    /\ states[ws].userId # NoUser
    /\ states[ws].userId # cs.userId

broadcastPresence(rs, states, cs) ==
    Concat([ws \in Conns |->
                IF PresenceTarget(states, cs, ws)
                THEN send(rs, ws, PresenceFrame(cs)) ELSE <<>>],
           NumConns)

\* The ticks of subscription s whose store read is pending.
TicksInFlight(s) ==
    {inflight[i].tick : i \in {j \in 1..Len(inflight) :
                                  inflight[j].kind = "tick" /\ inflight[j].sub = s}}

\* The subscriptions in `cancelled` leave their session's registry in this step:
\* the observer notes the ticks in flight, the one that runs the step excepted.
Cancel(cancelled, running) ==
    racing' = [s \in SubIds |->
                  IF s \in cancelled THEN TicksInFlight(s) \ {running} ELSE racing[s]]

\* handleUnwatch(ws, {subscriptionId}): what it leaves of the registry and the timers.
UnwatchFound_AnyRegistry(ws, subscriptionId) ==
    Authenticated(ws) /\ \E w \in clients : subscriptionId \in clientState[w].subscriptions

UnwatchFound(ws, subscriptionId) ==
    Authenticated(ws) /\ subscriptionId \in clientState[ws].subscriptions

UnwatchState(ws, subscriptionId) ==
    IF UnwatchFound(ws, subscriptionId)
    THEN [clientState EXCEPT ![ws].subscriptions = @ \ {subscriptionId}]
    ELSE clientState

UnwatchIntervals(ws, subscriptionId) ==
    IF UnwatchFound(ws, subscriptionId)
    THEN watchIntervals \ {subscriptionId}
    ELSE watchIntervals

UnwatchFrames(ws) ==
    IF Authenticated(ws) THEN <<>> ELSE sendError(readyState, ws, "UNAUTHORIZED")

\* ------------------------------------------------------------- actions
\* this.clients.size >= this.config.maxClients
AtCapacity_Above == Cardinality(clients) > MaxClientsCfg
AtCapacity == Cardinality(clients) >= MaxClientsCfg

\* this.send(ws, { type: 'connected', requestId: nanoid() })
AcceptFrames_Silent(rs, ws) == <<>>
AcceptFrames(rs, ws) == send(rs, ws, ConnectedFrame)

\* handleConnection(ws): the server's 'connection' event hands over an OPEN socket.
handleConnection(ws) ==
    /\ readyState[ws] = "CONNECTING"
    /\ \A w \in 1..(ws - 1) : readyState[w] # "CONNECTING"   \* sockets are numbered as they arrive
    /\ ws > WatchConns => subs = <<>>
    /\ LET open == [readyState EXCEPT ![ws] = "OPEN"] IN
       IF AtCapacity
       THEN /\ Emit(sendError(open, ws, "MAX_CLIENTS_REACHED"))
            /\ readyState' = [readyState EXCEPT ![ws] = "CLOSING"]   \* ws.close()
            /\ UNCHANGED <<clients, clientState, pingIntervals>>
       ELSE /\ readyState' = open
            /\ clients' = clients \cup {ws}
            /\ clientState' = [clientState EXCEPT ![ws] = NewClientState]
            /\ pingIntervals' = pingIntervals \cup {ws}
            /\ Emit(AcceptFrames(open, ws))
    /\ UNCHANGED <<watchIntervals, subs, nextUser, store, inflight, ticksFired,
                   presences, unwatched, racing>>

\* handleAuth: the token is not looked at; a fresh 'user_' + nanoid() is bound.
handleAuth(ws, message) ==
    /\ nextUser <= MaxUsers
    /\ clientState' = [clientState EXCEPT ![ws].userId = nextUser]
    /\ nextUser' = nextUser + 1
    /\ Emit(send(readyState, ws, AuthFrame(message.requestId, nextUser, "success")))
    /\ UNCHANGED <<readyState, clients, watchIntervals, pingIntervals, subs, store,
                   inflight, ticksFired, presences, unwatched, racing>>

Unauthorized(ws) ==
    /\ Emit(sendError(readyState, ws, "UNAUTHORIZED"))
    /\ UNCHANGED <<readyState, clients, clientState, watchIntervals, pingIntervals, subs,
                   nextUser, store, inflight, ticksFired, presences, unwatched, racing>>

NewSubscription(ws, type, message) ==
    [id |-> Len(subs) + 1, ws |-> ws, userId |-> clientState[ws].userId, type |-> type,
     documentId |-> message.documentId, where |-> message.where,
     offset |-> message.offset, requestId |-> message.requestId]

\* A store read in flight: of the initial state (tick 0) or of the tick-th tick fired.
NewRead(kind, subscriptionId, tick) == [kind |-> kind, sub |-> subscriptionId, tick |-> tick]

\* handleWatchDocument / handleWatchCollection up to the awaited initial read: the
\* subscription is registered and the read is issued.
StartWatch(ws, type, message) ==
    /\ Len(subs) < MaxSubs
    /\ presences = 0
    /\ \A w \in Conns : w > WatchConns => readyState[w] = "CONNECTING"
    /\ Len(inflight) < MaxInFlight
    /\ LET subscription == NewSubscription(ws, type, message) IN
       /\ subs' = Append(subs, subscription)
       /\ clientState' = [clientState EXCEPT ![ws].subscriptions = @ \cup {subscription.id}]
       /\ inflight' = Append(inflight, NewRead("init", subscription.id, 0))
    /\ Emit(<<>>)
    /\ UNCHANGED <<readyState, clients, watchIntervals, pingIntervals, nextUser, store,
                   ticksFired, presences, unwatched, racing>>

handleWatchDocument(ws, message) ==
    IF ~Authenticated(ws) THEN Unauthorized(ws) ELSE StartWatch(ws, "document", message)

handleWatchCollection(ws, message) ==
    IF ~Authenticated(ws) THEN Unauthorized(ws) ELSE StartWatch(ws, "collection", message)

PresenceStatus(message) == IF message.status = NoStatus THEN "online" ELSE message.status

handlePresence(ws, message) ==
    IF ~Authenticated(ws) THEN Unauthorized(ws)
    ELSE /\ presences < MaxPresence
         /\ subs = <<>>
         /\ clientState' = [clientState EXCEPT ![ws].status = PresenceStatus(message),
                                               ![ws].metadata = message.metadata]
         /\ Emit(broadcastPresence(readyState, clientState', clientState'[ws]))
         /\ presences' = presences + 1
         /\ UNCHANGED <<readyState, clients, watchIntervals, pingIntervals, subs, nextUser,
                        store, inflight, ticksFired, unwatched, racing>>

handleUnwatch(ws, message) ==
    /\ clientState' = UnwatchState(ws, message.subscriptionId)
    /\ watchIntervals' = UnwatchIntervals(ws, message.subscriptionId)
    /\ Emit(UnwatchFrames(ws))
    /\ unwatched' = IF UnwatchFound(ws, message.subscriptionId)
                    THEN unwatched \cup {message.subscriptionId} ELSE unwatched
    /\ Cancel(IF UnwatchFound(ws, message.subscriptionId)
              THEN {message.subscriptionId} ELSE {}, 0)
    /\ UNCHANGED <<readyState, clients, pingIntervals, subs, nextUser, store, inflight,
                   ticksFired, presences>>

\* A client learns a subscription id only from an event that carries it.
KnownSubscriptionId(s) ==
    IF s \in {NoSub, Undefined} THEN TRUE ELSE s <= Len(subs) /\ events[s] # <<>>

\* The frames that are answered with an error and nothing else: unparseable text on
\* any session, a request other than `auth` on an unauthenticated one. They are fed
\* to the sessions while no store read is pending and before the first tick, as they
\* touch neither the reads nor the ticks.
Answered(ws, message) ==
    message = InvalidJson \/ (~Authenticated(ws) /\ message.type # "auth")

QuietStore == inflight = <<>> /\ ticksFired = 0

\* The message handler's catch: JSON.parse threw.
InvalidMessage(ws) ==
    /\ Emit(sendError(readyState, ws, "INVALID_MESSAGE"))
    /\ UNCHANGED <<readyState, clients, clientState, watchIntervals, pingIntervals, subs,
                   nextUser, store, inflight, ticksFired, presences, unwatched, racing>>

\* ws.on('message'): JSON.parse, then handleMessage's switch.
OnMessage(ws, message) ==
    /\ readyState[ws] = "OPEN"
    /\ ws \in clients
    /\ Answered(ws, message) => QuietStore
    /\ \/ message = InvalidJson /\ InvalidMessage(ws)
       \/ message.type = "auth" /\ handleAuth(ws, message)
       \/ message.type = "watch_document" /\ handleWatchDocument(ws, message)
       \/ message.type = "watch_collection" /\ handleWatchCollection(ws, message)
       \/ message.type = "presence" /\ handlePresence(ws, message)
       \/ /\ message.type = "unwatch"
          /\ KnownSubscriptionId(message.subscriptionId)
          /\ handleUnwatch(ws, message)

\* What the store may answer to the read of a subscription.
ReadOutcomes(sub) ==
    IF sub.type = "document" THEN GetOutcomes(sub.documentId)
    ELSE FindOutcomes(buildQueryFilter(sub.where))

\* The initial event of a watch request, from what its initial read returned.
InitialFrames_NoNullCheck(sub, read) ==
    IF sub.type = "document"
    THEN send(readyState, sub.ws, DocumentEvent(sub, "added", read.doc))
    ELSE send(readyState, sub.ws, CollectionEvent(sub, "added", read.docs))

InitialFrames_Broadcast(sub, read) ==
    Concat([ws \in Conns |->
                IF ws \notin clients THEN <<>>
                ELSE IF sub.type = "document"
                THEN IF read.doc # NoDoc
                     THEN send(readyState, ws, DocumentEvent(sub, "added", read.doc))
                     ELSE <<>>
                ELSE IF Len(read.docs) > 0
                     THEN send(readyState, ws, CollectionEvent(sub, "added", read.docs))
                     ELSE <<>>],
           NumConns)

InitialFrames(sub, read) ==
    IF sub.type = "document"
    THEN IF read.doc # NoDoc
         THEN send(readyState, sub.ws, DocumentEvent(sub, "added", read.doc)) ELSE <<>>
    ELSE IF Len(read.docs) > 0
         THEN send(readyState, sub.ws, CollectionEvent(sub, "added", read.docs)) ELSE <<>>

\* handleWatchDocument / handleWatchCollection after the awaited initial read: the
\* initial event, then setInterval and watchIntervals.set; a rejected read leaves
\* the handler through the message handler's catch.
WatchResume(i, read) ==
    /\ inflight[i].kind = "init"
    /\ LET sub == subs[inflight[i].sub]
       IN  IF read.res = "error"
           THEN /\ Emit(sendError(readyState, sub.ws, "INVALID_MESSAGE"))
                /\ UNCHANGED watchIntervals
           ELSE /\ Record(InitialFrames(sub, read), 0, read.swallowed)
                /\ watchIntervals' = watchIntervals \cup {sub.id}
    /\ inflight' = RemoveAt(inflight, i)
    /\ UNCHANGED <<readyState, clients, clientState, pingIntervals, subs, nextUser, store,
                   ticksFired, presences, unwatched, racing>>

\* The setInterval callback of a subscription fires and issues its read.
TickFire(s) ==
    /\ s \in watchIntervals
    /\ ticksFired < MaxTicks
    /\ Len(inflight) < MaxInFlight
    /\ inflight' = Append(inflight, NewRead("tick", s, ticksFired + 1))
    /\ ticksFired' = ticksFired + 1
    /\ Emit(<<>>)
    /\ UNCHANGED <<readyState, clients, clientState, watchIntervals, pingIntervals, subs,
                   nextUser, store, presences, unwatched, racing>>

\* The callback after its awaited read.
DocumentTick_SkipFound(sub, read, tick) ==
    IF read.res = "error"
    THEN /\ Emit(<<>>)
         /\ UNCHANGED <<clientState, watchIntervals, racing>>
    ELSE IF read.doc = NoDoc
    THEN /\ Record(send(readyState, sub.ws, DocumentEvent(sub, "removed", NoDoc))
                   \o UnwatchFrames(sub.ws), tick, read.swallowed)
         /\ clientState' = UnwatchState(sub.ws, sub.id)
         /\ watchIntervals' = UnwatchIntervals(sub.ws, sub.id)
         /\ Cancel(IF UnwatchFound(sub.ws, sub.id) THEN {sub.id} ELSE {}, tick)
    ELSE /\ Emit(<<>>)
         /\ UNCHANGED <<clientState, watchIntervals, racing>>

DocumentTick(sub, read, tick) ==
    IF read.res = "error"
    THEN /\ Emit(<<>>)
         /\ UNCHANGED <<clientState, watchIntervals, racing>>
    ELSE IF read.doc = NoDoc
    THEN /\ Record(send(readyState, sub.ws, DocumentEvent(sub, "removed", NoDoc))
                   \o UnwatchFrames(sub.ws), tick, read.swallowed)
         /\ clientState' = UnwatchState(sub.ws, sub.id)
         /\ watchIntervals' = UnwatchIntervals(sub.ws, sub.id)
         /\ Cancel(IF UnwatchFound(sub.ws, sub.id) THEN {sub.id} ELSE {}, tick)
    ELSE /\ Record(send(readyState, sub.ws, DocumentEvent(sub, "modified", read.doc)),
                   tick, FALSE)
         /\ UNCHANGED <<clientState, watchIntervals, racing>>

CollectionTick(sub, read, tick) ==
    /\ IF read.res = "error"
       THEN Emit(<<>>)
       ELSE Record(send(readyState, sub.ws, CollectionEvent(sub, "modified", read.docs)),
                   tick, FALSE)
    /\ UNCHANGED <<clientState, watchIntervals, racing>>

TickResume(i, read) ==
    /\ inflight[i].kind = "tick"
    /\ LET sub == subs[inflight[i].sub]
       IN  IF sub.type = "document" THEN DocumentTick(sub, read, inflight[i].tick)
           ELSE CollectionTick(sub, read, inflight[i].tick)
    /\ inflight' = RemoveAt(inflight, i)
    /\ UNCHANGED <<readyState, clients, pingIntervals, subs, nextUser, store, ticksFired,
                   presences, unwatched>>

\* handleDisconnection(ws), run by the socket's 'close' event.
DisconnectedState_StatusKept(ws) == clientState
DisconnectedState(ws) == [clientState EXCEPT ![ws].status = "offline"]

handleDisconnection(rs, ws) ==
    /\ watchIntervals' = watchIntervals \ clientState[ws].subscriptions
    /\ Cancel(clientState[ws].subscriptions, 0)
    /\ clientState' = DisconnectedState(ws)
    /\ Emit(broadcastPresence(rs, clientState', clientState'[ws]))
    /\ clients' = clients \ {ws}

\* The socket closes (by the peer, or by terminate()): 'close' clears the heartbeat
\* interval and runs handleDisconnection.
OnClose(ws) ==
    /\ readyState[ws] \in {"OPEN", "CLOSING"}
    /\ ws \in clients
    /\ readyState' = [readyState EXCEPT ![ws] = "CLOSED"]
    /\ pingIntervals' = pingIntervals \ {ws}
    /\ handleDisconnection(readyState', ws)
    /\ UNCHANGED <<subs, nextUser, store, inflight, ticksFired, presences, unwatched>>

\* Another writer of the store creates, updates or deletes a document.
StoreWrite(d, v) ==
    /\ store[d] # v
    /\ store' = [store EXCEPT ![d] = v]
    /\ Emit(<<>>)
    /\ UNCHANGED <<readyState, clients, clientState, watchIntervals, pingIntervals, subs,
                   nextUser, inflight, ticksFired, presences, unwatched, racing>>

Next ==
    \/ \E ws \in Conns : handleConnection(ws)
    \/ \E ws \in Conns, message \in Messages \cup {InvalidJson} : OnMessage(ws, message)
    \/ \E i \in 1..Len(inflight) :
          \E read \in ReadOutcomes(subs[inflight[i].sub]) : WatchResume(i, read)
    \/ \E s \in SubIds : TickFire(s)
    \/ \E i \in 1..Len(inflight) :
          \E read \in ReadOutcomes(subs[inflight[i].sub]) : TickResume(i, read)
    \/ \E ws \in Conns : OnClose(ws)
    \/ \E d \in Docs, v \in 0..MaxVal : StoreWrite(d, v)

Spec == Init /\ [][Next]_vars

TypeOK ==
    /\ readyState \in [Conns -> {"CONNECTING", "OPEN", "CLOSING", "CLOSED"}]
    /\ clients \subseteq Conns
    /\ watchIntervals \subseteq SubIds
    /\ Len(subs) <= MaxSubs
    /\ Len(inflight) <= MaxInFlight

\* ------------------------------------------------------------- claims
Sent(i) == out[i].frame
EventsIn(frames) == {i \in 1..Len(frames) : IsEvent(frames[i].frame)}

\* C1 (unwatch invariant): once handleUnwatch has processed the owner's unwatch of
\* subscription S, no watch_document / watch_collection event carrying S's
\* subscriptionId is written to the client, a tick in flight at the unwatch included.
C1_NoEventAfterUnwatch ==
    \A i \in EventsIn(out) : Sent(i).subscriptionId \notin unwatched

\* C2 (disappearance invariant): a document subscription whose document existed
\* when the watch began (its `added` was delivered) and was deleted afterwards is
\* delivered exactly one `removed` event, and no event after it (in runs where no
\* read met a driver error).
C2_RemovedOnceAndLast ==
    \A s \in 1..Len(subs) :
        (/\ subs[s].type = "document" /\ events[s] # <<>> /\ events[s][1] = "added"
         /\ getFaults = 0) =>
            \A k \in 1..Len(events[s]) : events[s][k] = "removed" => k = Len(events[s])

\* C3: after handleDisconnection has handled a connection's close, watchIntervals
\* holds no timer of a subscription that connection created, and none is added later.
C3_NoTimerAfterClose ==
    \A s \in 1..Len(subs) : readyState[subs[s].ws] = "CLOSED" => s \notin watchIntervals

Accepted(ws) == readyState[ws] \in {"OPEN", "CLOSED"}
Rejected(ws) == readyState[ws] = "CLOSING"

\* C4 as claimed: on every connection handed to handleConnection, the first frame
\* written is `connected` with a freshly generated requestId.
C4_FirstFrameConnected ==
    \A ws \in Conns : readyState[ws] # "CONNECTING" => firstFrame[ws] = <<ConnectedFrame>>

\* C4 as amended: on every connection handleConnection accepts (fewer than
\* maxClients tracked on arrival), the first frame written is `connected` with a
\* freshly generated requestId, before any reply, event, presence frame or error.
C4_FirstFrameOfAccepted ==
    \A ws \in Conns : Accepted(ws) => firstFrame[ws] = <<ConnectedFrame>>

\* An accepted connection that has been written further frames after `connected`.
C4_Witness ==
    \E ws \in Conns :
        /\ Accepted(ws)
        /\ firstFrame[ws] = <<ConnectedFrame>>
        /\ \E i \in 1..Len(out) : out[i].to = ws /\ Sent(i).type # "connected"

GatedTypes == {"watch_document", "watch_collection", "presence", "unwatch"}

\* C5: a watch_document, watch_collection, presence or unwatch request on a session
\* with no successful auth is answered with one `error` frame, code UNAUTHORIZED, and
\* changes nothing: no registry, timer, status, metadata, read in flight; no
\* presence frame is written.
C5_UnauthorizedChangesNothing ==
    [][\A ws \in Conns : \A message \in Messages :
          (/\ message.type \in GatedTypes
           /\ ws \in clients
           /\ clientState[ws].userId = NoUser
           /\ OnMessage(ws, message))
          => /\ out' = <<[to |-> ws, frame |-> ErrorFrame("UNAUTHORIZED")]>>
             /\ UNCHANGED <<clients, clientState, watchIntervals, pingIntervals, subs,
                            inflight, readyState>>]_vars

C5_Witness ==
    \E ws \in clients :
        /\ clientState[ws].userId = NoUser
        /\ out = <<[to |-> ws, frame |-> ErrorFrame("UNAUTHORIZED")]>>
        /\ \E other \in clients : clientState[other].userId # NoUser

\* What get() resolves to when it does not reject.
GetAnswer(d) ==
    [res |-> "ok", doc |-> IF d \in Docs THEN store[d] ELSE NoDoc, docs |-> <<>>,
     swallowed |-> FALSE]

\* C6 (initial-state invariant): when the initial read of a watch_document finds the
\* document, the first event of the subscription is `added` with the payload read,
\* written to the requesting socket if it is still open; when the document does not
\* exist at the initial read, no initial event is written.
C6_InitialState ==
    [][\A i \in 1..Len(inflight) :
          LET sub == subs[inflight[i].sub]
              read == GetAnswer(sub.documentId)
          IN  (sub.type = "document" /\ WatchResume(i, read))
              => IF read.doc # NoDoc /\ readyState[sub.ws] = "OPEN"
                 THEN /\ out' = <<[to |-> sub.ws,
                                   frame |-> [Frame("watch_document", sub.requestId) EXCEPT
                                                !.subscriptionId = sub.id,
                                                !.change = "added",
                                                !.documentId = sub.documentId,
                                                !.data = store[sub.documentId]]]>>
                      /\ events[sub.id] = <<>>
                      /\ events'[sub.id] = <<"added">>
                 ELSE out' = <<>> /\ events' = events]_vars

C6_Witness ==
    \E s \in 1..Len(subs) :
        /\ subs[s].type = "document"
        /\ events[s] = <<"added">>
        /\ \E i \in 1..Len(out) :
              /\ Sent(i).type = "watch_document"
              /\ Sent(i).change = "added"
              /\ Sent(i).data = MaxVal

\* C7: the clients map never holds more than maxClients entries; a connection that
\* arrives while maxClients are tracked is written one `error` frame with code
\* MAX_CLIENTS_REACHED, is closed, and gets no session state, no heartbeat and no
\* `connected` frame; a connection that arrives below the cap is accepted.
C7_MaxClients ==
    [][/\ Cardinality(clients') <= MaxClientsCfg
       /\ \A ws \in Conns :
            handleConnection(ws) =>
                IF Cardinality(clients) >= MaxClientsCfg
                THEN /\ out' = <<[to |-> ws, frame |-> ErrorFrame("MAX_CLIENTS_REACHED")]>>
                     /\ readyState'[ws] # "OPEN"
                     /\ UNCHANGED <<clients, clientState, pingIntervals>>
                ELSE /\ readyState'[ws] = "OPEN"
                     /\ clients' = clients \cup {ws}
                     /\ out' = <<[to |-> ws, frame |-> ConnectedFrame]>>]_vars

C7_Witness ==
    \E ws \in Conns :
        /\ Rejected(ws)
        /\ Cardinality(clients) = MaxClientsCfg
        /\ out = <<[to |-> ws, frame |-> ErrorFrame("MAX_CLIENTS_REACHED")]>>

\* C8 (presence exclusion): a presence update of an authenticated connection A is
\* written, as one `presence` frame with A's userId, its new status and metadata,
\* to every other tracked, open connection that is authenticated, to no
\* unauthenticated connection, and not to A.
PresenceAudience(sender) ==
    {ws \in clients \ {sender} : clientState[ws].userId # NoUser /\ readyState[ws] = "OPEN"}

C8_PresenceExclusion ==
    [][\A ws \in Conns : \A message \in Messages :
          (/\ message.type = "presence"
           /\ ws \in clients
           /\ clientState[ws].userId # NoUser
           /\ OnMessage(ws, message))
          => /\ {out'[i].to : i \in 1..Len(out')} = PresenceAudience(ws)
             /\ Len(out') = Cardinality(PresenceAudience(ws))
             /\ \A i \in 1..Len(out') :
                   out'[i].frame =
                       [Frame("presence", NanoId) EXCEPT
                           !.userId = clientState[ws].userId,
                           !.status = IF message.status = NoStatus THEN "online"
                                      ELSE message.status,
                           !.metadata = message.metadata]]_vars

C8_Witness ==
    /\ presences > 0
    /\ \E i \in 1..Len(out) : Sent(i).type = "presence" /\ Sent(i).status = "away"

\* C9: every watch_document / watch_collection event is written to the socket whose
\* session created the subscription, and to no other.
C9_EventsToOwnerOnly ==
    \A i \in EventsIn(out) : out[i].to = subs[Sent(i).subscriptionId].ws

C9_Witness ==
    /\ Cardinality(clients) > 1
    /\ \A ws \in clients : clientState[ws].userId # NoUser
    /\ EventsIn(out) # {}

\* C10: an `auth` request whose token the Auth collaborator rejects is answered with
\* an `auth` frame of status error, and leaves the session's userId empty.
C10_RejectedTokenStaysUnauthenticated ==
    [][\A ws \in Conns : \A message \in Messages :
          (/\ message.type = "auth"
           /\ message.token = "rejected"
           /\ clientState[ws].userId = NoUser
           /\ OnMessage(ws, message))
          => /\ \A i \in 1..Len(out') :
                   out'[i].frame.type = "auth" => out'[i].frame.status = "error"
             /\ clientState'[ws].userId = NoUser]_vars

\* C11: a malformed inbound frame (text that is not JSON on any session, or a
\* watch_document without documentId / an unwatch without subscriptionId on an
\* authenticated session) is answered with one `error` frame of code
\* INVALID_MESSAGE; the connection stays open and the session's userId, its
\* subscriptions and the timers are unchanged.
C11_MalformedFrame ==
    [][\A ws \in Conns : \A message \in Malformed \cup {InvalidJson} :
          (/\ message = InvalidJson \/ clientState[ws].userId # NoUser
           /\ OnMessage(ws, message))
          => /\ Len(out') = 1
             /\ out'[1].to = ws
             /\ out'[1].frame.type = "error"
             /\ out'[1].frame.code = "INVALID_MESSAGE"
             /\ readyState'[ws] = "OPEN"
             /\ clientState' = clientState
             /\ watchIntervals' = watchIntervals
             /\ subs' = subs]_vars

\* C12: every frame that directly answers a client request (the `auth` reply, every
\* `error` reply) carries the requestId of the request it answers.
C12_RequestIdEchoed ==
    [][\A ws \in Conns : \A message \in Messages :
          OnMessage(ws, message)
          => \A i \in 1..Len(out') :
                (out'[i].to = ws /\ out'[i].frame.type \in {"auth", "error"})
                => out'[i].frame.requestId = message.requestId]_vars

\* C13: a watch_collection request of an authenticated session whose query has a
\* where-condition with an unrecognized operator is answered at once with an `error`
\* frame (code INVALID_OPERATOR), and no subscription is created: nothing is added to
\* the registry, no read is issued and no timer is started.
C13_InvalidOperatorRejected ==
    [][\A ws \in Conns : \A message \in Messages :
          (/\ message.type = "watch_collection"
           /\ \E i \in 1..Len(message.where) : message.where[i].operator \notin KnownOperators
           /\ clientState[ws].userId # NoUser
           /\ OnMessage(ws, message))
          => /\ Len(out') = 1
             /\ out'[1].to = ws
             /\ out'[1].frame.type = "error"
             /\ out'[1].frame.code = "INVALID_OPERATOR"
             /\ UNCHANGED <<clientState, subs, inflight, watchIntervals>>]_vars

\* The store read rejected (mongoAdapter.get / find threw).
ReadRejected == [res |-> "error", doc |-> NoDoc, docs |-> <<>>, swallowed |-> FALSE]

\* C14: when the initial store read of a watch_document / watch_collection request
\* fails, the watch request fails outright: after the handler has ended, the
\* session's registry holds no subscription for the request and no timer exists
\* for it.
C14_FailedWatchLeavesNothing ==
    [][\A i \in 1..Len(inflight) :
          WatchResume(i, ReadRejected)
          => LET sub == subs[inflight[i].sub]
             IN  /\ sub.id \notin clientState'[sub.ws].subscriptions
                 /\ sub.id \notin watchIntervals']_vars

\* MongoAdapter.get met a driver error inside findOne and returned null.
ReadSwallowed == [res |-> "ok", doc |-> NoDoc, docs |-> <<>>, swallowed |-> TRUE]

\* C15: when the store read of a polling tick of subscription S fails, no frame is
\* written for that tick, S keeps its place in the registry and its timer, and
\* every other subscription, timer and session is left as it was.
C15_FailedTickSkipped ==
    [][\A i \in 1..Len(inflight) :
          \A read \in {ReadRejected, ReadSwallowed} \cap ReadOutcomes(subs[inflight[i].sub]) :
              TickResume(i, read)
              => /\ out' = <<>>
                 /\ UNCHANGED <<clientState, watchIntervals, clients, readyState>>]_vars

\* C16: the events of one subscription are delivered in tick order: the event of a
\* tick that fired earlier is written before the event of a tick that fired later,
\* also when the store reads outlast the polling interval.
C16_TickOrder ==
    \A s \in SubIds :
        \A k \in 1..(Len(eventTicks[s]) - 1) : eventTicks[s][k] < eventTicks[s][k + 1]

\* A subscription is live: its session is tracked, holds it in its registry, and
\* its socket is open.
Live(sub) ==
    /\ sub.ws \in clients
    /\ sub.id \in clientState[sub.ws].subscriptions
    /\ readyState[sub.ws] = "OPEN"

ComparisonOperators == {"==", "!=", "<", "<=", ">", ">="}

Satisfies(v, condition) ==
    CASE condition.operator = "==" -> v = condition.value
      [] condition.operator = "!=" -> v # condition.value
      [] condition.operator = "<" -> v < condition.value
      [] condition.operator = "<=" -> v <= condition.value
      [] condition.operator = ">" -> v > condition.value
      [] condition.operator = ">=" -> v >= condition.value

RECURSIVE Matching(_, _)
\* The documents d, d + 1, ... of the collection that satisfy every condition.
Matching(d, where) ==
    IF d > NumDocs THEN <<>>
    ELSE IF store[d] # NoDoc /\ \A k \in 1..Len(where) : Satisfies(store[d], where[k])
         THEN <<[id |-> d, v |-> store[d]]>> \o Matching(d + 1, where)
         ELSE Matching(d + 1, where)

\* What find() resolves to when it does not reject.
FindAnswer(where) ==
    [res |-> "ok", doc |-> NoDoc, docs |-> DocsFrom(1, buildQueryFilter(where)),
     swallowed |-> FALSE]

\* The event of a collection subscription that lists `docs`, each as `change`.
Listing(sub, change, docs) ==
    [Frame("watch_collection", sub.requestId) EXCEPT
        !.subscriptionId = sub.id, !.change = change,
        !.changes = [k \in 1..Len(docs) |->
                        [type |-> change, documentId |-> docs[k].id, data |-> docs[k].v]]]

Skip(docs, offset) == SubSeq(docs, offset + 1, Len(docs))

\* C19: the change list of every collection-watch event is the result of the
\* request's full query: the documents that satisfy the where-conditions, after
\* `offset` of them are skipped (with one document in the collection, orderBy and
\* limit cannot show).
C19_FullQueryApplied ==
    \A i \in EventsIn(out) :
        LET sub == subs[Sent(i).subscriptionId]
        IN  (/\ sub.type = "collection"
             /\ \A k \in 1..Len(sub.where) : sub.where[k].operator \in ComparisonOperators)
            => Sent(i).changes =
                   Listing(sub, Sent(i).change, Skip(Matching(1, sub.where), sub.offset)).changes

\* C20: when the close of an authenticated connection A is handled, A's status
\* becomes `offline`, and one `presence` frame with A's userId and status `offline`
\* is written to every other tracked, authenticated, open connection, and none to A.
C20_OfflinePresence ==
    [][\A ws \in Conns :
          (clientState[ws].userId # NoUser /\ OnClose(ws))
          => /\ clientState'[ws].status = "offline"
             /\ {out'[i].to : i \in 1..Len(out')} = PresenceAudience(ws)
             /\ Len(out') = Cardinality(PresenceAudience(ws))
             /\ \A i \in 1..Len(out') :
                   out'[i].frame =
                       [Frame("presence", NanoId) EXCEPT
                           !.userId = clientState[ws].userId,
                           !.status = "offline",
                           !.metadata = clientState[ws].metadata]]_vars

\* An authenticated connection has closed and another one was told it is offline.
C20_Witness ==
    \E ws \in Conns :
        /\ readyState[ws] = "CLOSED"
        /\ clientState[ws].userId # NoUser
        /\ clientState[ws].status = "offline"
        /\ \E i \in 1..Len(out) :
              /\ out[i].to # ws
              /\ Sent(i).type = "presence"
              /\ Sent(i).status = "offline"
              /\ Sent(i).userId = clientState[ws].userId

\* ------------------------------------------------------------- heartbeat
\* handleConnection's setInterval(heartbeatInterval) callback, the pongTimeout it
\* arms for each ping and the once('pong') listener it registers.  Time is the
\* order of the steps: a pongTimeout that fires is one whose pingTimeout has elapsed.
MaxPings == 2
PingIds == 1..MaxPings

\* Neither the heartbeat's callbacks nor the peer's pong write a frame or touch
\* the sessions, the subscriptions or the store.
HeartbeatStep ==
    /\ out' = <<>>
    /\ UNCHANGED <<clients, clientState, watchIntervals, pingIntervals, subs, nextUser,
                   store, inflight, ticksFired, presences, firstFrame, events, unwatched,
                   eventTicks, getFaults, racing>>
    /\ UNCHANGED <<queryVars, signInVars, tokenVars, emailVars>>

\* The interval fires on an open socket: ws.ping(), a pongTimeout is armed and a
\* one-shot 'pong' listener registered.  (On a socket that is not OPEN the
\* callback does nothing.)
PingTick(ws) ==
    /\ ws \in pingIntervals
    /\ readyState[ws] = "OPEN"
    /\ pings[ws] < MaxPings
    /\ LET ping == pings[ws] + 1 IN
       /\ pings' = [pings EXCEPT ![ws] = ping]
       /\ pongTimeouts' = [pongTimeouts EXCEPT ![ws] = @ \cup {ping}]
       /\ pongListeners' = [pongListeners EXCEPT ![ws] = @ \cup {ping}]
    /\ HeartbeatStep
    /\ UNCHANGED <<readyState, ponged, terminatedBy>>

\* The timeouts the listeners that a pong runs clear: each listener clears the
\* pongTimeout of its own ping.
Cleared_None(ws) == {}
Cleared(ws) == pongListeners[ws]

\* A pong of the peer arrives: every registered once('pong') listener runs
\* (clearTimeout(pongTimeout), lastSeen = now) and is removed.
Pong(ws) ==
    /\ readyState[ws] = "OPEN"
    /\ pongListeners[ws] # {}
    /\ pongTimeouts' = [pongTimeouts EXCEPT ![ws] = @ \ Cleared(ws)]
    /\ ponged' = [ponged EXCEPT ![ws] = @ \cup (pongListeners[ws] \cap pongTimeouts[ws])]
    /\ pongListeners' = [pongListeners EXCEPT ![ws] = {}]
    /\ HeartbeatStep
    /\ UNCHANGED <<readyState, pings, terminatedBy>>

\* A pending pongTimeout fires: an open socket is terminated (ws.terminate()
\* leaves it CLOSING until its 'close' event is handled).
PongTimeout(ws, ping) ==
    /\ ping \in pongTimeouts[ws]
    /\ pongTimeouts' = [pongTimeouts EXCEPT ![ws] = @ \ {ping}]
    /\ IF readyState[ws] = "OPEN"
       THEN /\ readyState' = [readyState EXCEPT ![ws] = "CLOSING"]
            /\ terminatedBy' = [terminatedBy EXCEPT ![ws] = ping]
       ELSE UNCHANGED <<readyState, terminatedBy>>
    /\ HeartbeatStep
    /\ UNCHANGED <<pings, pongListeners, ponged>>

\* The runs that exercise the heartbeat: the sockets that connect, and the one
\* of them that subscribes, with its requests.
HeartbeatConns == 1..WatchConns
Subscriber == 1
HeartbeatMessages ==
    {AuthMessage(r, "valid") : r \in ReqIds}
    \cup {WatchDocumentMessage(r, d) : r \in ReqIds, d \in Docs}

NextHeartbeat ==
    \/ \E ws \in HeartbeatConns : handleConnection(ws)
    \/ \E message \in HeartbeatMessages : OnMessage(Subscriber, message)
    \/ \E i \in 1..Len(inflight) :
          \E read \in ReadOutcomes(subs[inflight[i].sub]) : WatchResume(i, read)
    \/ \E ws \in HeartbeatConns : PingTick(ws)
    \/ \E ws \in HeartbeatConns : Pong(ws)
    \/ \E ws \in HeartbeatConns, ping \in PingIds : PongTimeout(ws, ping)
    \/ \E ws \in HeartbeatConns : OnClose(ws)

\* Timers that are due fire, and a terminated socket emits 'close'.
HeartbeatFairness ==
    /\ \A ws \in HeartbeatConns, ping \in PingIds : WF_vars(PongTimeout(ws, ping))
    /\ \A ws \in HeartbeatConns : WF_vars(readyState[ws] = "CLOSING" /\ OnClose(ws))

SpecHeartbeat == Init /\ [][NextHeartbeat]_vars /\ HeartbeatFairness

MaxQueries == 3        \* CollectionQuery objects constructed in a run
MaxAge == 3
QueryDocs == 9         \* documents of the collection: every age with every tags value

\* Operands and field values, by JavaScript type: a number, a string, a Date, an
\* array of numbers; Operator(v) is the object {$eq: v}.
Num(n) == [kind |-> "number", num |-> n, arr |-> {}, inner |-> ""]
Text == [kind |-> "string", num |-> 0, arr |-> {}, inner |-> ""]
DateValue == [kind |-> "date", num |-> 0, arr |-> {}, inner |-> ""]
Arr(a) == [kind |-> "array", num |-> 0, arr |-> a, inner |-> ""]
EqObject(v) == [v EXCEPT !.kind = "object", !.inner = v.kind]

TagSets == <<{}, {1}, {2, 3}>>
Collection ==
    [d \in 1..QueryDocs |->
        [age |-> (((d - 1) \div Len(TagSets)) % MaxAge) + 1,
         tags |-> TagSets[((d - 1) % Len(TagSets)) + 1]]]
FieldValue(doc, field) == IF field = "age" THEN Num(doc.age) ELSE Arr(doc.tags)

\* The store's evaluation of {field: {op: operand}} on a document
\* (collection.find): comparison only within a type, an array field matches by
\* its elements, $elemMatch applies the operand object to the elements.
MongoRefuses(clause) ==
    \/ clause.op \in {"$in", "$nin"} /\ clause.value.kind # "array"
    \/ clause.op = "$elemMatch" /\ clause.value.kind # "object"

MongoCompare(op, n, m) ==
    CASE op = "$eq" -> n = m
      [] op = "$lt" -> n < m
      [] op = "$lte" -> n <= m
      [] op = "$gt" -> n > m
      [] op = "$gte" -> n >= m

MongoSelects(doc, clause) ==
    LET fv == FieldValue(doc, clause.field)
        operand == clause.value
        elems == IF fv.kind = "array" THEN fv.arr ELSE {fv.num}
        compares(op) ==
            \/ operand.kind = "number" /\ \E e \in elems : MongoCompare(op, e, operand.num)
            \/ op = "$eq" /\ operand.kind = "array" /\ fv.kind = "array"
                          /\ operand.arr = fv.arr
    IN  CASE clause.op = "$ne" -> ~compares("$eq")
          [] clause.op = "$in" -> elems \cap operand.arr # {}
          [] clause.op = "$nin" -> elems \cap operand.arr = {}
          [] clause.op = "$elemMatch" ->
                /\ fv.kind = "array"
                /\ operand.inner = "number"
                /\ \E e \in fv.arr : MongoCompare("$eq", e, operand.num)
          [] OTHER -> compares(clause.op)

\* MongoAdapter.buildFilter: filter[field] = {...} for each condition in turn, so
\* the object holds for each field the clause of the last condition naming it.
AdapterClause(condition) ==
    IF condition.operator = "array-contains"
    THEN [field |-> condition.field, op |-> "$elemMatch", value |-> EqObject(condition.value)]
    ELSE [field |-> condition.field, op |-> getMongoOperator(condition.operator),
          value |-> condition.value]

buildFilter(conditions) ==
    LET last(f) == CHOOSE i \in 1..Len(conditions) :
                        /\ conditions[i].field = f
                        /\ \A j \in (i + 1)..Len(conditions) : conditions[j].field # f
    IN  [f \in {conditions[i].field : i \in 1..Len(conditions)} |->
            AdapterClause(conditions[last(f)])]

\* cursor.sort({[orderBy]: 1 | -1}): by age, documents of one age in id order
RECURSIVE SortIds(_, _)
SortIds(ids, direction) ==
    IF ids = {} THEN <<>>
    ELSE LET key(d) == IF direction = "desc" THEN 0 - Collection[d].age ELSE Collection[d].age
             first == CHOOSE d \in ids :
                        \A e \in ids : key(d) < key(e) \/ (key(d) = key(e) /\ d <= e)
         IN  <<first>> \o SortIds(ids \ {first}, direction)

\* skip(offset) and limit(limit) of the cursor, each applied when truthy
Page(ids, options) ==
    LET from == options.offset + 1
        to == IF options.limit # 0 THEN options.offset + options.limit ELSE Len(ids)
    IN  SubSeq(ids, from, IF to > Len(ids) THEN Len(ids) ELSE to)

\* MongoAdapter.query(name, conditions, options): the ids returned, or QUERY_ERROR
\* when the driver fails or the store refuses the filter; an operator buildFilter
\* has no case for is INVALID_OPERATOR.
query(conditions, options, fault) ==
    LET filter == buildFilter(conditions)
        found == {d \in 1..QueryDocs : \A f \in DOMAIN filter : MongoSelects(Collection[d], filter[f])}
        sorted == SortIds(found, IF options.orderBy = "" THEN "asc" ELSE options.orderDirection)
    IN  IF \E i \in 1..Len(conditions) : conditions[i].operator \notin KnownOperators
        THEN [thrown |-> "INVALID_OPERATOR", docs |-> <<>>]
        ELSE IF fault \/ \E f \in DOMAIN filter : MongoRefuses(filter[f])
        THEN [thrown |-> "QUERY_ERROR", docs |-> <<>>]
        ELSE [thrown |-> "", docs |-> Page(sorted, options)]

\* The read of the collection-watch path: mongoAdapter.find(collection,
\* buildQueryFilter(query)); a rejection reaches the client as an error frame.
watchFind(where, fault) ==
    LET filter == buildQueryFilter(where)
        clauses == {filter[i] : i \in 1..Len(filter)}
        found == {d \in 1..QueryDocs : \A c \in clauses : MongoSelects(Collection[d], c)}
    IN  IF fault \/ \E c \in clauses : MongoRefuses(c)
        THEN [thrown |-> "INVALID_MESSAGE", docs |-> <<>>]
        ELSE [thrown |-> "", docs |-> SortIds(found, "asc")]

\* Inputs of the query API.
RangeOperators == {"<", "<=", ">", ">="}
Condition(field, operator, value) == [field |-> field, operator |-> operator, value |-> value]
QueryConditions ==
    {Condition("age", o, Num(2)) : o \in {"==", "!=", "<", "<=", ">", ">="}}
    \cup {Condition("age", "<", Num(3)), Condition("age", ">", Text),
          Condition("age", ">=", DateValue),
          Condition("age", "in", Arr({1, 3})), Condition("age", "not-in", Arr({1, 3})),
          Condition("tags", "array-contains", Num(1)),
          Condition("tags", "array-contains-any", Arr({1, 2}))}
\* query.where of a watch_collection frame is parsed JSON: its operator is whatever
\* string the client wrote.
WatchConditions == QueryConditions \cup {Condition("age", "like", Num(2))}
Limits == {1, 2}
Directions == {"asc", "desc"}

\* clone(): a new object with a copy of the conditions array, a copy of the
\* options object and the receiver's hasOrderBy.  The copies are the next
\* entries of conditionArrays and optionObjects.
clone_Aliased(this) == queries[this]
clone(this) ==
    [conditions |-> Len(conditionArrays) + 1, queryOptions |-> Len(optionObjects) + 1,
     hasOrderBy |-> queries[this].hasOrderBy]
Copied(heap, ref) == Append(heap, heap[ref])

\* where's checks, in order: the code it throws, or "".
whereThrows_Unordered(this, operator, value) ==
    IF operator \in RangeOperators /\ value.kind \notin {"number", "date"}
    THEN "INVALID_ARGUMENT" ELSE ""
whereThrows(this, operator, value) ==
    IF queries[this].hasOrderBy THEN "INVALID_QUERY"
    ELSE IF operator \in RangeOperators /\ value.kind \notin {"number", "date"}
    THEN "INVALID_ARGUMENT" ELSE ""

QueryStep == UNCHANGED <<socketVars, heartbeatVars, signInVars, tokenVars, emailVars>>

\* A call that returns the clone it made, after `change` was applied to it.
Returns(op, this, newQuery, arrays, options) ==
    /\ Len(queries) < MaxQueries
    /\ queries' = Append(queries, newQuery)
    /\ conditionArrays' = arrays
    /\ optionObjects' = options
    /\ result' = [NoResult EXCEPT !.op = op, !.receiver = this, !.returned = Len(queries')]
    /\ QueryStep

where(this, condition) ==
    LET code == whereThrows(this, condition.operator, condition.value)
        newQuery == clone(this)
    IN  IF code # ""
        THEN /\ result' = [NoResult EXCEPT !.op = "where", !.receiver = this, !.thrown = code,
                                           !.conditions = <<condition>>]
             /\ UNCHANGED <<queries, conditionArrays, optionObjects>>
             /\ QueryStep
        ELSE Returns("where", this, newQuery,
                [Copied(conditionArrays, queries[this].conditions)
                    EXCEPT ![newQuery.conditions] = Append(@, condition)],
                Copied(optionObjects, queries[this].queryOptions))

orderBy(this, field, direction) ==
    LET newQuery == [clone(this) EXCEPT !.hasOrderBy = TRUE]
    IN  Returns("orderBy", this, newQuery,
            Copied(conditionArrays, queries[this].conditions),
            [Copied(optionObjects, queries[this].queryOptions)
                EXCEPT ![newQuery.queryOptions].orderBy = field,
                       ![newQuery.queryOptions].orderDirection = direction])

limit(this, n) ==
    LET newQuery == clone(this)
    IN  Returns("limit", this, newQuery,
            Copied(conditionArrays, queries[this].conditions),
            [Copied(optionObjects, queries[this].queryOptions)
                EXCEPT ![newQuery.queryOptions].limit = n])

offset(this, n) ==
    LET newQuery == clone(this)
    IN  Returns("offset", this, newQuery,
            Copied(conditionArrays, queries[this].conditions),
            [Copied(optionObjects, queries[this].queryOptions)
                EXCEPT ![newQuery.queryOptions].offset = n])

\* get(): adapter.query(name, this.conditions, this.queryOptions)
get(this, fault) ==
    LET conditions == conditionArrays[queries[this].conditions]
        read == query(conditions, optionObjects[queries[this].queryOptions], fault)
    IN  /\ result' = [NoResult EXCEPT !.op = "get", !.receiver = this, !.thrown = read.thrown,
                                      !.docs = read.docs, !.conditions = conditions,
                                      !.fault = fault]
        /\ UNCHANGED <<queries, conditionArrays, optionObjects>>
        /\ QueryStep

\* A watch_collection request's read with query.where = conditions.  The watch
\* path uses no CollectionQuery object: its reads are explored in the runs that
\* have built none.
watchCollectionRead(conditions, fault) ==
    LET read == watchFind(conditions, fault)
    IN  /\ Len(queries) = 1
        /\ result' = [NoResult EXCEPT !.op = "watch_collection", !.thrown = read.thrown,
                                      !.docs = read.docs, !.conditions = conditions,
                                      !.fault = fault]
        /\ UNCHANGED <<queries, conditionArrays, optionObjects>>
        /\ QueryStep

NextQuery ==
    \/ \E this \in 1..Len(queries), condition \in QueryConditions : where(this, condition)
    \/ \E this \in 1..Len(queries), direction \in Directions : orderBy(this, "age", direction)
    \/ \E this \in 1..Len(queries), n \in Limits : limit(this, n)
    \/ \E this \in 1..Len(queries) : offset(this, 1)
    \/ \E this \in 1..Len(queries), fault \in BOOLEAN : get(this, fault)
    \/ \E condition \in WatchConditions, fault \in BOOLEAN :
          watchCollectionRead(<<condition>>, fault)

SpecQuery == Init /\ [][NextQuery]_vars

\* ------------------------------------------------------------- claims on the query API
ConditionsOf(q) == conditionArrays[queries[q].conditions]
OptionsOf(q) == optionObjects[queries[q].queryOptions]
ValidOperand(condition) ==
    condition.operator \in RangeOperators => condition.value.kind \in {"number", "date"}

\* C22 (where before orderBy): where on a query that has an orderBy throws
\* INVALID_QUERY and constructs no query; where with a valid operand on a query
\* without orderBy returns a query that has the condition appended, and orderBy
\* on any query returns one.
C22_WhereBeforeOrderBy ==
    [][/\ \A this \in 1..Len(queries), condition \in QueryConditions :
            where(this, condition) =>
                IF queries[this].hasOrderBy
                THEN /\ result'.thrown = "INVALID_QUERY"
                     /\ result'.returned = 0
                     /\ queries' = queries
                ELSE ValidOperand(condition) =>
                        /\ result'.thrown = ""
                        /\ result'.returned = Len(queries) + 1
                        /\ conditionArrays'[queries'[result'.returned].conditions] = Append(ConditionsOf(this), condition)
       /\ \A this \in 1..Len(queries), direction \in Directions :
            orderBy(this, "age", direction) =>
                /\ result'.thrown = ""
                /\ queries'[result'.returned].hasOrderBy
                /\ conditionArrays'[queries'[result'.returned].conditions] = ConditionsOf(this)]_vars

\* where was called on a query built by where(...).orderBy(...), and threw.
C22_Witness ==
    /\ result.op = "where"
    /\ result.thrown = "INVALID_QUERY"
    /\ queries[result.receiver].hasOrderBy
    /\ ConditionsOf(result.receiver) # <<>>

\* C23 (range operand validated on every path): a condition with <, <=, > or >=
\* whose operand is neither a number nor a Date is refused with INVALID_ARGUMENT,
\* by where of the query builder (on a query that has no orderBy) and by the read of
\* a collection watch alike.
C23_RangeOperandValidated ==
    \A i \in 1..Len(result.conditions) :
        (/\ result.op \in {"where", "watch_collection"}
         /\ ~result.fault
         /\ result.op = "where" => ~queries[result.receiver].hasOrderBy
         /\ ~ValidOperand(result.conditions[i]))
            => result.thrown = "INVALID_ARGUMENT"

\* What a condition asks of a document.
Holds(doc, condition) ==
    LET fv == FieldValue(doc, condition.field)
        v == condition.value
        number == fv.kind = "number" /\ v.kind = "number"
    IN  CASE condition.operator = "==" -> fv = v
          [] condition.operator = "!=" -> fv # v
          [] condition.operator = "<" -> number /\ fv.num < v.num
          [] condition.operator = "<=" -> number /\ fv.num <= v.num
          [] condition.operator = ">" -> number /\ fv.num > v.num
          [] condition.operator = ">=" -> number /\ fv.num >= v.num
          [] condition.operator = "in" -> fv.kind = "number" /\ fv.num \in v.arr
          [] condition.operator = "not-in" -> ~(fv.kind = "number" /\ fv.num \in v.arr)
          [] condition.operator = "array-contains" ->
                fv.kind = "array" /\ v.kind = "number" /\ v.num \in fv.arr
          [] condition.operator = "array-contains-any" ->
                fv.kind = "array" /\ fv.arr \cap v.arr # {}
          [] OTHER -> FALSE
Returned == {result.docs[i] : i \in 1..Len(result.docs)}

\* C24 (conjunction): every document a get() returns satisfies every condition
\* of its query, two conditions on one field included.
C24_Conjunction ==
    (result.op = "get" /\ result.thrown = "")
        => \A d \in Returned, i \in 1..Len(result.conditions) :
                Holds(Collection[d], result.conditions[i])

\* the operand has the type the operator is defined for
WellTyped(condition) ==
    CASE condition.operator \in {"in", "not-in", "array-contains-any"} ->
            condition.value.kind = "array"
      [] OTHER -> condition.value.kind = "number"

\* C25 (filter round trip): a query of one condition with a supported operator
\* and an operand of the operator's type, read without options by get() or by a
\* collection watch while the store answers, is not refused and selects exactly the
\* documents the condition holds of.
C25_FilterRoundTrip ==
    (/\ result.op \in {"get", "watch_collection"}
     /\ ~result.fault
     /\ Len(result.conditions) = 1
     /\ result.op = "get" => OptionsOf(result.receiver) = NoOptions)
        => LET condition == result.conditions[1] IN
           (condition.operator \in KnownOperators /\ WellTyped(condition))
              => /\ result.thrown = ""
                 /\ Returned = {d \in 1..QueryDocs : Holds(Collection[d], condition)}

\* C26 (query immutability): no call changes the conditions, the options or the
\* hasOrderBy of a query that exists, the receiver's included, and the query that
\* where / orderBy / limit / offset return is a new object.
C26_QueryImmutable ==
    [][/\ \A q \in 1..Len(queries) :
            /\ Len(queries') >= q
            /\ conditionArrays'[queries'[q].conditions] = ConditionsOf(q)
            /\ optionObjects'[queries'[q].queryOptions] = OptionsOf(q)
            /\ queries'[q].hasOrderBy = queries[q].hasOrderBy
       /\ (result'.returned # 0 /\ result' # result) =>
            /\ result'.returned \notin 1..Len(queries)
            /\ \A q \in 1..Len(queries) :
                  /\ queries'[result'.returned].conditions # queries[q].conditions
                  /\ queries'[result'.returned].queryOptions # queries[q].queryOptions]_vars

\* where on a base query of one condition returned a query of two conditions,
\* and the base still holds its single condition.
C26_Witness ==
    /\ result.op = "where"
    /\ result.returned # 0
    /\ Len(ConditionsOf(result.receiver)) = 1
    /\ Len(ConditionsOf(result.returned)) = 2
    /\ SubSeq(ConditionsOf(result.returned), 1, 1) = ConditionsOf(result.receiver)

\* ------------------------------------------------------------- sign-in lockout
\* AuthManager.signIn for one enabled user: the user is read, isAccountLocked is
\* evaluated on what was read, the handler awaits verifyPassword, then writes the
\* counters.  Calls may overlap at the await.
MAX_FAILED_ATTEMPTS == 5
LOCKOUT_DURATION == 2     \* 15 * 60 * 1000 ms, in ticks of 7.5 minutes
MaxClock == 4
MaxSignIns == 7           \* signIn calls in a run
MaxOverlap == 2           \* signIn calls awaiting verifyPassword at one time
Passwords == {"right", "wrong"}

\* isAccountLocked(user)
isAccountLocked(u) ==
    /\ u.failedLoginAttempts # 0 /\ u.lastFailedLogin # 0
    /\ u.failedLoginAttempts >= MAX_FAILED_ATTEMPTS
    /\ now < u.lastFailedLogin + LOCKOUT_DURATION

\* the user object after isAccountLocked returned false: an expired lockout
\* resets the counters of the object (not of the stored user)
AfterLockCheck(u) ==
    IF /\ u.failedLoginAttempts # 0 /\ u.lastFailedLogin # 0
       /\ u.failedLoginAttempts >= MAX_FAILED_ATTEMPTS
    THEN [failedLoginAttempts |-> 0, lastFailedLogin |-> 0]
    ELSE u

SignInStep == UNCHANGED <<socketVars, heartbeatVars, queryVars, tokenVars, emailVars>>

\* A failed or successful sign-in completes.
Completed(password, code, lockedAtStart) ==
    /\ attempt' = [op |-> "signIn", password |-> password, code |-> code,
                   lockedAtStart |-> lockedAtStart]
    /\ streak' = IF code = "" THEN 0 ELSE streak + 1
    /\ lockedAt' = IF code = "" THEN 0
                   ELSE IF streak' = MAX_FAILED_ATTEMPTS THEN now ELSE lockedAt

\* signIn up to its await of verifyPassword: db.query finds the user, a locked
\* account throws ACCOUNT_LOCKED.
SignInRead(password) ==
    /\ started < MaxSignIns
    /\ Len(signIns) < MaxOverlap
    /\ started' = started + 1
    /\ LET lockedAtStart == lockedAt # 0 /\ now < lockedAt + LOCKOUT_DURATION IN
       IF isAccountLocked(user)
       THEN /\ Completed(password, "ACCOUNT_LOCKED", lockedAtStart)
            /\ UNCHANGED signIns
       ELSE /\ signIns' = Append(signIns, [password |-> password, user |-> AfterLockCheck(user),
                                           lockedAtStart |-> lockedAtStart])
            /\ attempt' = NoAttempt
            /\ UNCHANGED <<streak, lockedAt>>
    /\ UNCHANGED <<user, now>>
    /\ SignInStep

\* updateFailedAttempts(user): the counters written, and the code signIn throws
FailedAttempts(u) == u.failedLoginAttempts + 1
FailureCode(u) ==
    IF FailedAttempts(u) >= MAX_FAILED_ATTEMPTS THEN "ACCOUNT_LOCKED" ELSE "INVALID_PASSWORD"

\* signIn after verifyPassword: a wrong password runs updateFailedAttempts, the
\* right one resets the counters and returns tokens.
SignInFinish(i) ==
    LET call == signIns[i] IN
    /\ IF call.password = "wrong"
       THEN /\ user' = [failedLoginAttempts |-> FailedAttempts(call.user),
                        lastFailedLogin |-> now]
            /\ Completed(call.password, FailureCode(call.user), call.lockedAtStart)
       ELSE /\ user' = [failedLoginAttempts |-> 0, lastFailedLogin |-> 0]
            /\ Completed(call.password, "", call.lockedAtStart)
    /\ signIns' = RemoveAt(signIns, i)
    /\ UNCHANGED <<now, started>>
    /\ SignInStep

\* Time passes.
Tick ==
    /\ now < MaxClock
    /\ now' = now + 1
    /\ attempt' = NoAttempt
    /\ UNCHANGED <<user, signIns, started, streak, lockedAt>>
    /\ SignInStep

NextSignIn ==
    \/ \E password \in Passwords : SignInRead(password)
    \/ \E i \in 1..Len(signIns) : SignInFinish(i)
    \/ Tick

SpecSignIn == Init /\ [][NextSignIn]_vars

\* C27 (account lockout): the failed sign-in that is the 5th since the last
\* successful one fails with ACCOUNT_LOCKED; so does every sign-in made after it and
\* before LOCKOUT_DURATION has elapsed, whatever the password; a successful sign-in
\* leaves failedLoginAttempts 0 and lastFailedLogin null.
C27_AccountLockout ==
    attempt.op = "signIn" =>
        /\ (attempt.code # "" /\ streak = MAX_FAILED_ATTEMPTS) => attempt.code = "ACCOUNT_LOCKED"
        /\ attempt.lockedAtStart => attempt.code = "ACCOUNT_LOCKED"
        /\ attempt.code = "" => user = [failedLoginAttempts |-> 0, lastFailedLogin |-> 0]

\* ------------------------------------------------------------- tokens
\* AuthManager.refreshToken, revokeToken and verifyToken over the JWTs of one
\* enabled user, with the store answering in time.  Token 0 is a string that is no
\* JWT of this server.
Forged == 0
MaxRefreshes == 2       \* refreshToken calls in flight at one time
MaxExpired == 1         \* tokens that expire in a run
TokenTypes == {"access", "refresh"}

\* jwt.verifyToken(token, expectedType): the code of the error it throws, "" if
\* it returns the payload.
verifyJwt(token, expectedType) ==
    IF token = Forged THEN "INVALID_TOKEN"
    ELSE IF tokens[token].expired THEN "TOKEN_EXPIRED"
    ELSE IF tokens[token].type # expectedType
    THEN (IF expectedType = "refresh" THEN "INVALID_REFRESH_TOKEN" ELSE "INVALID_TOKEN")
    ELSE ""

\* isTokenBlacklisted(token): an entry is found; it outlives the token it names.
isTokenBlacklisted(token) == token \in blacklist

TokenStep == UNCHANGED <<socketVars, heartbeatVars, queryVars, signInVars, emailVars>>

TokenCall(op, token, type, code, returned, after) ==
    tokenCall' = [op |-> op, token |-> token, type |-> type, code |-> code,
                  returned |-> returned, after |-> after]

\* refreshToken up to `await this.blacklistToken`: verifyToken(token, 'refresh'),
\* the blacklist check, the user found.
RefreshCheck(token) ==
    LET code == IF verifyJwt(token, "refresh") # "" THEN verifyJwt(token, "refresh")
                ELSE IF isTokenBlacklisted(token) THEN "TOKEN_REVOKED" ELSE ""
        after == token # Forged /\ exchanged[token] > 0
    IN  /\ IF code # ""
           THEN /\ TokenCall("refreshToken", token, "refresh", code, 0, after)
                /\ UNCHANGED refreshes
           ELSE /\ Len(refreshes) < MaxRefreshes
                /\ Len(tokens) + 2 * (Len(refreshes) + 1) <= MaxTokens
                /\ refreshes' = Append(refreshes, [token |-> token, after |-> after])
                /\ tokenCall' = NoTokenCall
        /\ UNCHANGED <<tokens, blacklist, exchanged>>
        /\ TokenStep

\* refreshToken from blacklistToken on: the old token is blacklisted, new tokens
\* are generated and returned.
RefreshFinish(i) ==
    LET call == refreshes[i] IN
    /\ blacklist' = blacklist \cup {call.token}
    /\ tokens' = tokens \o AuthTokens
    /\ exchanged' = [exchanged EXCEPT ![call.token] = @ + 1]
    /\ TokenCall("refreshToken", call.token, "refresh", "", Len(tokens'), call.after)
    /\ refreshes' = RemoveAt(refreshes, i)
    /\ TokenStep

\* revokeToken(token, type): the code it throws.  An expired token is verified a
\* second time, which throws again.
revokeThrows(token, type) ==
    IF verifyJwt(token, type) = "" THEN ""
    ELSE IF verifyJwt(token, type) = "TOKEN_EXPIRED"
    THEN (IF verifyJwt(token, type) = "" THEN "" ELSE "INVALID_TOKEN")
    ELSE "INVALID_TOKEN"

RevokeToken(token, type) ==
    LET code == revokeThrows(token, type) IN
    /\ blacklist' = IF code = "" THEN blacklist \cup {token} ELSE blacklist
    /\ TokenCall("revokeToken", token, type, code, 0, FALSE)
    /\ UNCHANGED <<tokens, refreshes, exchanged>>
    /\ TokenStep

\* AuthManager.verifyToken(token, type): the blacklist first, then the JWT.
VerifyToken(token, type) ==
    /\ TokenCall("verifyToken", token, type,
                 IF isTokenBlacklisted(token) THEN "TOKEN_REVOKED" ELSE verifyJwt(token, type),
                 0, token \in blacklist)
    /\ UNCHANGED <<tokens, blacklist, refreshes, exchanged>>
    /\ TokenStep

\* A token's exp passes.
Expire(token) ==
    /\ ~tokens[token].expired
    /\ Cardinality({t \in 1..Len(tokens) : tokens[t].expired}) < MaxExpired
    /\ tokens' = [tokens EXCEPT ![token].expired = TRUE]
    /\ tokenCall' = NoTokenCall
    /\ UNCHANGED <<blacklist, refreshes, exchanged>>
    /\ TokenStep

NextTokens ==
    \/ \E token \in 0..Len(tokens) : RefreshCheck(token)
    \/ \E i \in 1..Len(refreshes) : RefreshFinish(i)
    \/ \E token \in 0..Len(tokens), type \in TokenTypes : RevokeToken(token, type)
    \/ \E token \in 0..Len(tokens), type \in TokenTypes : VerifyToken(token, type)
    \/ \E token \in 1..Len(tokens) : Expire(token)

SpecTokens == Init /\ [][NextTokens]_vars

\* C28 (refresh token exchanged once): at most one refreshToken call with a given
\* refresh token returns tokens, overlapping calls included; a call made with an
\* unexpired refresh token after a call with it has returned tokens fails with
\* TOKEN_REVOKED; a refresh token is refused as revoked only if it is blacklisted,
\* so the one a refresh returned is accepted.
C28_RefreshOnce ==
    /\ \A t \in 1..Len(tokens) : exchanged[t] <= 1
    /\ tokenCall.op = "refreshToken" =>
        /\ (tokenCall.after /\ ~tokens[tokenCall.token].expired)
                => tokenCall.code = "TOKEN_REVOKED"
        /\ tokenCall.code = "TOKEN_REVOKED" => tokenCall.token \in blacklist

\* C29 (revocation): revokeToken of a correctly signed token of the given type,
\* expired or not, succeeds and leaves the token blacklisted; AuthManager.verifyToken
\* of a blacklisted token is refused, with TOKEN_REVOKED.
C29_Revocation ==
    /\ (/\ tokenCall.op = "revokeToken"
        /\ tokenCall.token # Forged
        /\ tokens[tokenCall.token].type = tokenCall.type)
            => (tokenCall.code = "" /\ tokenCall.token \in blacklist)
    /\ (tokenCall.op = "verifyToken" /\ tokenCall.after)
            => tokenCall.code = "TOKEN_REVOKED"

\* ------------------------------------------------------------- email tokens
\* AuthManager.verifyEmail and resetPassword with verifyEmailToken.  Token 0 is
\* a string that names no email_tokens document.
Unknown == 0
MaxEmailUses == 4       \* verifyEmail / resetPassword calls in a run
MaxEmailCalls == 2      \* calls past their token query at one time
EmailMethods == {"verifyEmail", "resetPassword"}
TokenTypeOf(op) == IF op = "verifyEmail" THEN "verification" ELSE "reset"

\* verifyEmailToken's query: token == token, type == type, used == false
Found_AnyType(token, type) == token # Unknown /\ ~emailTokens[token].used
Found(token, type) ==
    /\ token # Unknown
    /\ emailTokens[token].type = type
    /\ ~emailTokens[token].used

\* verifyEmailToken's checks: the code it throws, "" if it goes on to mark the
\* token used.
verifyEmailTokenThrows(token, type) ==
    IF ~Found(token, type) THEN "INVALID_TOKEN"
    ELSE IF emailTokens[token].expired THEN "TOKEN_EXPIRED"
    ELSE ""

EmailStep == UNCHANGED <<socketVars, heartbeatVars, queryVars, signInVars, tokenVars>>

\* verifyEmail(token) / resetPassword(token, newPassword) up to verifyEmailToken's
\* update: the password is validated first, then the token is looked up and checked.
EmailCheck(op, token, validPassword) ==
    LET code == IF op = "resetPassword" /\ ~validPassword THEN "INVALID_PASSWORD"
                ELSE verifyEmailTokenThrows(token, TokenTypeOf(op))
        after == token \in consumed
    IN  /\ emailUses < MaxEmailUses
        /\ op = "verifyEmail" => validPassword
        /\ emailUses' = emailUses + 1
        /\ IF code # ""
           THEN /\ emailCall' = [op |-> op, token |-> token, code |-> code, after |-> after]
                /\ UNCHANGED emailCalls
           ELSE /\ Len(emailCalls) < MaxEmailCalls
                /\ emailCalls' = Append(emailCalls, [op |-> op, token |-> token,
                                                     stage |-> "mark", after |-> after])
                /\ emailCall' = NoEmailCall
        /\ UNCHANGED <<emailTokens, account, consumed>>
        /\ EmailStep

\* verifyEmailToken: db.update('email_tokens', id, { used: true })
EmailMark(i) ==
    LET call == emailCalls[i] IN
    /\ call.stage = "mark"
    /\ emailTokens' = [emailTokens EXCEPT ![call.token].used = TRUE]
    /\ emailCalls' = [emailCalls EXCEPT ![i].stage = "update"]
    /\ emailCall' = NoEmailCall
    /\ UNCHANGED <<account, consumed, emailUses>>
    /\ EmailStep

\* the update of the user, and the return
EmailFinish(i) ==
    LET call == emailCalls[i] IN
    /\ call.stage = "update"
    /\ account' = IF call.op = "verifyEmail"
                  THEN [account EXCEPT !.emailVerified = TRUE]
                  ELSE [account EXCEPT !.passwordHash = @ + 1]
    /\ consumed' = consumed \cup {call.token}
    /\ emailCall' = [op |-> call.op, token |-> call.token, code |-> "", after |-> call.after]
    /\ emailCalls' = RemoveAt(emailCalls, i)
    /\ UNCHANGED <<emailTokens, emailUses>>
    /\ EmailStep

\* A token's expiresAt passes.
EmailExpire(token) ==
    /\ ~emailTokens[token].expired
    /\ emailTokens' = [emailTokens EXCEPT ![token].expired = TRUE]
    /\ emailCall' = NoEmailCall
    /\ UNCHANGED <<account, emailCalls, consumed, emailUses>>
    /\ EmailStep

NextEmail ==
    \/ \E op \in EmailMethods, token \in 0..Len(emailTokens), validPassword \in BOOLEAN :
          EmailCheck(op, token, validPassword)
    \/ \E i \in 1..Len(emailCalls) : EmailMark(i)
    \/ \E i \in 1..Len(emailCalls) : EmailFinish(i)
    \/ \E token \in 1..Len(emailTokens) : EmailExpire(token)

SpecEmail == Init /\ [][NextEmail]_vars

LiveSubscriptions == UNION {clientState[ws].subscriptions : ws \in clients}

\* C31 (timers match live subscriptions): the keys of watchIntervals are exactly the
\* subscriptions held in the registry of some connected session: every live
\* subscription has its timer and every timer belongs to a live subscription. The
\* claim speaks of every reachable state; it is stated here for the states with no
\* store read pending, where no handler stands between its registry write and its
\* timer write.
C31_TimersMatchSubscriptions ==
    inflight = <<>> => watchIntervals = LiveSubscriptions

\* C32 (userId set exactly once): a session's userId leaves the empty value only in
\* a step that answers an `auth` request of that session with success, and once it
\* is set no step changes it.
C32_UserIdSetOnce ==
    [][\A ws \in Conns :
          /\ (clientState[ws].userId = NoUser /\ clientState'[ws].userId # NoUser)
                => \E i \in 1..Len(out') :
                      /\ out'[i].to = ws
                      /\ out'[i].frame.type = "auth"
                      /\ out'[i].frame.status = "success"
                      /\ out'[i].frame.userId = clientState'[ws].userId
          /\ clientState[ws].userId # NoUser
                => clientState'[ws].userId = clientState[ws].userId]_vars

\* The events delivered for s by the ticks that were in flight when s was cancelled.
RacingEvents(s) == {i \in 1..Len(eventTicks[s]) : eventTicks[s][i] \in racing[s]}

\* C33 (in-flight ticks at cancellation): whichever way subscription S left its
\* session's registry (unwatch, the tick that found the document gone, disconnect),
\* the ticks of S that were in flight at that moment deliver in total at most one
\* event for S.
C33_RacingTicksDeliverOnce ==
    \A s \in SubIds : Cardinality(RacingEvents(s)) <= 1

\* C34 (unwatch of an id the session does not hold): an `unwatch` from an
\* authenticated session whose subscriptionId is not in that session's registry
\* (no such id, an id held by another session, an id already unwatched) writes no
\* frame and changes no session's registry and no timer.
C34_ForeignUnwatchIsNoOp ==
    [][\A ws \in Conns : \A message \in Messages :
          (/\ message.type = "unwatch"
           /\ message.subscriptionId # Undefined
           /\ Authenticated(ws)
           /\ message.subscriptionId \notin clientState[ws].subscriptions
           /\ OnMessage(ws, message))
          => /\ out' = <<>>
             /\ UNCHANGED <<clients, clientState, watchIntervals, subs, inflight,
                            readyState>>]_vars

\* Two authenticated sessions, one of which holds a subscription whose id a client
\* can know and whose timer runs, right after a step that wrote no frame: the state
\* an unwatch of that id by the other session is processed in and leaves.
C34_Witness ==
    \E ws \in clients : \E owner \in clients \ {ws} :
        /\ Authenticated(ws) /\ Authenticated(owner)
        /\ readyState[ws] = "OPEN"
        /\ \E s \in clientState[owner].subscriptions :
              /\ s \in watchIntervals
              /\ KnownSubscriptionId(s)
              /\ s \notin clientState[ws].subscriptions
        /\ out = <<>>

\* C35 (removed only after the document was seen): on a document subscription a
\* `removed` event is never the first event delivered: an event that carried the
\* document (`added` or `modified`), sent from an earlier read that found it, comes
\* before it (in runs where no read met a driver error).
C35_RemovedOnlyAfterSeen ==
    \A s \in 1..Len(subs) :
        (subs[s].type = "document" /\ getFaults = 0) =>
            \A k \in 1..Len(events[s]) :
                events[s][k] = "removed" =>
                    \E j \in 1..(k - 1) : events[s][j] \in {"added", "modified"}

\* C36 (session status): the status of every session is one of online, away,
\* offline in every reachable state, whatever `status` the inbound presence
\* messages carry; it is online when the connection is accepted, it changes only in
\* a step that handles a presence message of the session or its close, and it is
\* offline once the close was handled.
C36_StatusDomain ==
    /\ [](\A ws \in Conns : clientState[ws].status \in Statuses)
    /\ [][\A ws \in Conns :
             /\ (ws \notin clients /\ ws \in clients') => clientState'[ws].status = "online"
             /\ clientState'[ws].status # clientState[ws].status
                   => \/ OnClose(ws)
                      \/ \E message \in Messages :
                            message.type = "presence" /\ OnMessage(ws, message)
             /\ (ws \in clients /\ ws \notin clients') => clientState'[ws].status = "offline"
             /\ readyState[ws] = "CLOSED" => clientState'[ws].status = "offline"]_vars

\* C37 (one filter translation): for the list of where-conditions of a read, the
\* filter MongoAdapter.buildFilter builds and the filter buildQueryFilter builds
\* are equivalent: the store refuses both or neither and selects the same
\* documents with either; and when the list has an operator outside the ten
\* supported ones, both translations fail with INVALID_OPERATOR.
C37_SameTranslation ==
    (result.op \in {"get", "watch_collection"} /\ ~result.fault) =>
        LET viaAdapter == query(result.conditions, NoOptions, FALSE)
            viaWatch == watchFind(result.conditions, FALSE)
        IN  IF \E i \in 1..Len(result.conditions) :
                    result.conditions[i].operator \notin KnownOperators
            THEN /\ viaAdapter.thrown = "INVALID_OPERATOR"
                 /\ viaWatch.thrown = "INVALID_OPERATOR"
            ELSE /\ (viaAdapter.thrown = "") = (viaWatch.thrown = "")
                 /\ viaAdapter.docs = viaWatch.docs

\* C38 (modified only after added): on a document subscription every `modified`
\* event delivered is preceded by an `added` event delivered for the same
\* subscription, also when the document did not exist at the initial read and was
\* created before the first tick (in runs where no read met a driver error).
C38_ModifiedAfterAdded ==
    \A s \in 1..Len(subs) :
        (subs[s].type = "document" /\ getFaults = 0) =>
            \A k \in 1..Len(events[s]) :
                events[s][k] = "modified" =>
                    \E j \in 1..(k - 1) : events[s][j] = "added"

\* C39 (presence only for authenticated sessions): no `presence` frame written
\* carries the empty userId; in particular the close of a connection that never
\* authenticated, whose frame would carry it, writes no `presence` frame.
C39_PresenceHasUser ==
    \A i \in 1..Len(out) :
        Sent(i).type = "presence" => Sent(i).userId # NoUser

====
